---- MODULE Spec2Model ----
(***************************************************************************)
(* OptiCred: amortization and effective-rate engine                        *)
(* (modules/amortizacion.py, modules/interes.py, modules/simulaciones.py). *)
(*                                                                         *)
(* Every Python float is a decimal floating-point number [m, e] of value   *)
(* m * 10^e with an 8-digit signed mantissa (10^7 <= |m| < 10^8, or m = 0),*)
(* and every float operation rounds its exact result to the nearest such   *)
(* number.  A value produced by round(x, 2) is held as an integer number   *)
(* of hundredths (cents); columns of a DataFrame are sequences of rows.    *)
(***************************************************************************)
EXTENDS Integers, Sequences, FiniteSets, TLC

(***************************************************************************)
(* Float arithmetic                                                        *)
(***************************************************************************)
Limb == 100 * 100
MantHi == Limb * Limb
MantLo == MantHi \div 10

Abs(x) == IF x < 0 THEN -x ELSE x
Sgn(x) == IF x < 0 THEN -1 ELSE IF x > 0 THEN 1 ELSE 0

Pow10(k) == <<1, 10, 100, 1000, 10000, 100000, 1000000, 10000000, 100000000, 1000000000>>[k + 1]

\* The quotient q of a division by d that left the remainder r, rounded to the
\* nearest integer, ties to even.
RoundQ(q, r, d) == IF (r > d - r) \/ (r = d - r /\ (q % 2) = 1) THEN q + 1 ELSE q

\* n / d rounded to the nearest integer, ties to even (n any sign, d > 0).
RDiv(n, d) == Sgn(n) * RoundQ(Abs(n) \div d, Abs(n) % d, d)

Zero == [m |-> 0, e |-> 0]

\* The element of a singleton.  {F(v) : v \in {x}} is F(x) with x computed before F is.
El(S) == CHOOSE v \in S : TRUE

\* The float of value m * 10^e, m any integer: the mantissa brought to 8 digits.
RECURSIVE Norm(_, _)
Norm(m, e) ==
  IF m = 0 THEN Zero
  ELSE IF Abs(m) >= MantHi THEN Norm(RDiv(m, 10), e + 1)
  ELSE IF Abs(m) < MantLo THEN Norm(m * 10, e - 1)
  ELSE [m |-> m, e |-> e]

FInt(n) == Norm(n, 0)
\* The float of c hundredths: a stored round(x, 2) value read back, or a literal.
FCents(c) == Norm(c, -2)
One == FInt(1)

FNeg(a) == [m |-> -a.m, e |-> a.e]

\* hi + lo for hi.e >= lo.e, neither zero, computed with one guard digit.
FAddOrd(hi, lo) ==
  IF hi.e - lo.e > 9 THEN hi
  ELSE Norm((hi.m * 10) + (IF hi.e = lo.e THEN lo.m * 10
                           ELSE RDiv(lo.m, Pow10(hi.e - lo.e - 1))),
            hi.e - 1)

\* a + b
FAdd(a, b) ==
  IF a.m = 0 THEN b
  ELSE IF b.m = 0 THEN a
  ELSE IF a.e >= b.e THEN FAddOrd(a, b) ELSE FAddOrd(b, a)

FSub(a, b) == FAdd(a, FNeg(b))

\* The float of sign s whose mantissa is the 16-digit integer hi * 10^8 + lo
\* (hi >= 10^6) rounded to 8 digits, times 10^e.
FMulRound(s, hi, lo, e) ==
  IF hi >= MantLo
  THEN Norm(s * RoundQ(hi, lo, MantHi), e + 8)
  ELSE Norm(s * RoundQ((hi * 10) + (lo \div MantLo), lo % MantLo, MantLo), e + 7)

\* The same for the product hh * 10^8 + mid * 10^4 + ll of two mantissas, t being
\* mid plus the carry of ll.
FMulCarry(s, hh, t, ll, e) ==
  FMulRound(s, hh + (t \div Limb), ((t % Limb) * Limb) + (ll % Limb), e)

\* The product of the mantissas xh * 10^4 + xl and yh * 10^4 + yl from their
\* 4-digit halves.
FMulLimbs(s, xh, xl, yh, yl, e) ==
  FMulCarry(s, xh * yh, (xh * yl) + (xl * yh) + ((xl * yl) \div Limb), xl * yl, e)

\* a * b
FMul(a, b) ==
  IF a.m = 0 \/ b.m = 0 THEN Zero
  ELSE FMulLimbs(Sgn(a.m) * Sgn(b.m), Abs(a.m) \div Limb, Abs(a.m) % Limb,
                 Abs(b.m) \div Limb, Abs(b.m) % Limb, a.e + b.e)

\* The quotient digits of x / y by long division: <<quotient, remainder>> after k more digits.
RECURSIVE LongDiv(_, _, _, _)
LongDiv(q, r, y, k) ==
  IF k = 0 THEN <<q, r>>
  ELSE LongDiv((q * 10) + ((r * 10) \div y), (r * 10) % y, y, k - 1)

\* The float of sign s whose mantissa is the quotient qr[1] of a division by y
\* (9 or 10 digits, remainder qr[2]) rounded to 8 digits, times 10^e.
FDivRound(s, qr, y, e) ==
  IF qr[1] >= MantHi
  THEN Norm(s * (IF (qr[1] % 10) > 5
                    \/ ((qr[1] % 10) = 5 /\ (qr[2] > 0 \/ ((qr[1] \div 10) % 2) = 1))
                 THEN (qr[1] \div 10) + 1 ELSE qr[1] \div 10),
            e - 7)
  ELSE Norm(s * RoundQ(qr[1], qr[2], y), e - 8)

\* a / b (b # 0).
FDiv(a, b) ==
  IF a.m = 0 THEN Zero
  ELSE FDivRound(Sgn(a.m) * Sgn(b.m),
                 LongDiv(Abs(a.m) \div Abs(b.m), Abs(a.m) % Abs(b.m), Abs(b.m), 8),
                 Abs(b.m), a.e - b.e)

FLess(a, b) == FSub(a, b).m < 0
FLeq(a, b) == FSub(a, b).m <= 0

\* round(x, 2), in hundredths.
Round2(a) ==
  IF a.m = 0 THEN 0
  ELSE IF a.e + 2 >= 0 THEN a.m * Pow10(a.e + 2)
  ELSE IF -(a.e + 2) > 9 THEN 0
  ELSE RDiv(a.m, Pow10(-(a.e + 2)))

\* max(0, x)
Max0(a) == IF a.m > 0 THEN a ELSE Zero

(***************************************************************************)
(* modules/interes.py: rate conversion                                     *)
(***************************************************************************)
\* (1 + t) ** n - 1 for an integer n >= 0.  binary64 keeps some thirteen digits
\* of this difference; at 8 digits it is computed from t by squaring and
\* multiplying, (1+w)^2 - 1 = w(2+w) and (1+w)(1+t) - 1 = w + t + wt, which loses none.
\* (1 + h) ** 2 - 1
PowM1Doble(h) == FMul(h, FAdd(FInt(2), h))
\* (1 + h2) * (1 + t) - 1 when n is odd, h2 when it is even
PowM1Impar(h2, t, n) == IF (n % 2) = 1 THEN FAdd(FAdd(h2, t), FMul(h2, t)) ELSE h2

RECURSIVE PowM1(_, _)
PowM1(t, n) ==
  IF n = 0 THEN Zero
  ELSE PowM1Impar(PowM1Doble(PowM1(t, n \div 2)), t, n)

\* (1 + tea) ** (1/12) - 1 for tea > 0, as the largest float whose twelve-fold
\* compounding does not exceed tea: its decimal exponent first, then its
\* mantissa digit by digit, m being the digits settled above position d.
RECURSIVE Root12Exp(_, _)
Root12Exp(tea, e) ==
  IF FLeq(PowM1([m |-> MantLo, e |-> e], 12), tea) THEN e ELSE Root12Exp(tea, e - 1)

\* The mantissa m at exponent e still compounds to at most tea.
Root12Cabe(tea, e, m) == m < MantHi /\ FLeq(PowM1([m |-> m, e |-> e], 12), tea)

\* The largest digit k in lo..hi-1 for which m + k * 10^d still compounds to at
\* most tea (lo does), found by halving.
RECURSIVE Root12Digit(_, _, _, _, _, _)
Root12Digit(tea, e, m, d, lo, hi) ==
  IF hi - lo <= 1 THEN lo
  ELSE IF Root12Cabe(tea, e, m + (((lo + hi) \div 2) * Pow10(d)))
  THEN Root12Digit(tea, e, m, d, (lo + hi) \div 2, hi)
  ELSE Root12Digit(tea, e, m, d, lo, (lo + hi) \div 2)

RECURSIVE Root12Mant(_, _, _, _)
Root12Mant(tea, e, m, d) ==
  IF d < 0 THEN [m |-> m, e |-> e]
  ELSE Root12Mant(tea, e, m + (Root12Digit(tea, e, m, d, 0, 10) * Pow10(d)), d - 1)

\* tem = (1 + tea) ** (1/12) - 1, for tea >= 0 and for tea = -1, where
\* 0.0 ** (1/12) is 0.0
tea_a_tem(tea) ==
  IF tea.m = 0 THEN Zero
  ELSE IF tea = FNeg(One) THEN FNeg(One)
  ELSE Root12Mant(tea, Root12Exp(tea, -7), MantLo, 7)

\* tea = (1 + tem) ** 12 - 1
tem_a_tea(tem) == PowM1(tem, 12)

(***************************************************************************)
(* modules/amortizacion.py                                                 *)
(***************************************************************************)
\* Faulty variants of the definitions below; each property of the schedules is
\* checked to tell the definition from one of them.
\* Months numbered from 0.
FilaMesDesdeCero(mes, saldo, interes, amortizacion, cuota, saldo_final) ==
  [mes |-> mes - 1, saldo_inicial |-> Round2(saldo), interes |-> Round2(interes),
   amortizacion |-> Round2(amortizacion), cuota |-> Round2(cuota),
   saldo_final |-> Round2(Max0(saldo_final))]
\* The principal portion stored without the interest taken out of it.
FilaAmortizacionSinDescontar(mes, saldo, interes, amortizacion, cuota, saldo_final) ==
  [mes |-> mes, saldo_inicial |-> Round2(saldo), interes |-> Round2(interes),
   amortizacion |-> Round2(FAdd(amortizacion, interes)), cuota |-> Round2(cuota),
   saldo_final |-> Round2(Max0(saldo_final))]
\* The installment taken as stored interest plus stored principal portion.
FilaCuotaSumada(mes, saldo, interes, amortizacion, cuota, saldo_final) ==
  [mes |-> mes, saldo_inicial |-> Round2(saldo), interes |-> Round2(interes),
   amortizacion |-> Round2(amortizacion), cuota |-> Round2(interes) + Round2(amortizacion),
   saldo_final |-> Round2(Max0(saldo_final))]
\* The principal portion taken as the difference of the stored balances.
FilaAmortizacionPorSaldos(mes, saldo, interes, amortizacion, cuota, saldo_final) ==
  [mes |-> mes, saldo_inicial |-> Round2(saldo), interes |-> Round2(interes),
   amortizacion |-> Round2(saldo) - Round2(Max0(saldo_final)), cuota |-> Round2(cuota),
   saldo_final |-> Round2(Max0(saldo_final))]
\* The opening balance written after the payment is applied.
FilaAperturaTrasPago(mes, saldo, interes, amortizacion, cuota, saldo_final) ==
  [mes |-> mes, saldo_inicial |-> Round2(Max0(saldo_final)), interes |-> Round2(interes),
   amortizacion |-> Round2(amortizacion), cuota |-> Round2(cuota),
   saldo_final |-> Round2(Max0(saldo_final))]

calcular_cuota_francesa(monto, tea, plazo) ==
  El({IF tem.m = 0
      THEN FDiv(monto, FInt(plazo))
      ELSE FDiv(FMul(monto, FMul(tem, FAdd(One, PowM1(tem, plazo)))),
                PowM1(tem, plazo)) :
        tem \in {tea_a_tem(tea)}})

\* One row of a schedule, as tabla.append stores it.
Fila(mes, saldo, interes, amortizacion, cuota, saldo_final) ==
  [mes |-> mes,
   saldo_inicial |-> Round2(saldo),
   interes |-> Round2(interes),
   amortizacion |-> Round2(amortizacion),
   cuota |-> Round2(cuota),
   saldo_final |-> Round2(Max0(saldo_final))]

\* Faulty variant: the balance rounded to 2 decimals on its way to the next month.
RECURSIVE BucleFrancesaRedondeada(_, _, _, _, _)
BucleFrancesaRedondeada(saldo, tem, cuota, desde, hasta) ==
  IF desde > hasta THEN [tabla |-> <<>>, saldo |-> saldo]
  ELSE IF desde = hasta
  THEN LET interes == FMul(saldo, tem)
           amortizacion == FSub(cuota, interes)
           saldo_final == FSub(saldo, amortizacion)
       IN [tabla |-> <<Fila(desde, saldo, interes, amortizacion, cuota, saldo_final)>>,
           saldo |-> FCents(Round2(saldo_final))]
  ELSE LET mitad == (desde + hasta) \div 2
           a == BucleFrancesaRedondeada(saldo, tem, cuota, desde, mitad)
           b == BucleFrancesaRedondeada(a.saldo, tem, cuota, mitad + 1, hasta)
       IN [tabla |-> a.tabla \o b.tabla, saldo |-> b.saldo]

\* The loop of generar_tabla_francesa over the months desde..hasta, saldo being the
\* balance before month desde: the rows appended and the balance left.  (The range
\* is walked in halves, in order.)
RECURSIVE BucleFrancesa(_, _, _, _, _)
BucleFrancesa(saldo, tem, cuota, desde, hasta) ==
  IF desde > hasta THEN [tabla |-> <<>>, saldo |-> saldo]
  ELSE IF desde = hasta
  THEN LET interes == FMul(saldo, tem)
           amortizacion == FSub(cuota, interes)
           saldo_final == FSub(saldo, amortizacion)
       IN [tabla |-> <<Fila(desde, saldo, interes, amortizacion, cuota, saldo_final)>>,
           saldo |-> saldo_final]
  ELSE LET mitad == (desde + hasta) \div 2
           a == BucleFrancesa(saldo, tem, cuota, desde, mitad)
           b == BucleFrancesa(a.saldo, tem, cuota, mitad + 1, hasta)
       IN [tabla |-> a.tabla \o b.tabla, saldo |-> b.saldo]

generar_tabla_francesa(monto, tea, plazo) ==
  El({BucleFrancesa(monto, tem, cuota, 1, plazo).tabla :
        tem \in {tea_a_tem(tea)}, cuota \in {calcular_cuota_francesa(monto, tea, plazo)}})

calcular_amortizacion_alemana(monto, plazo) == FDiv(monto, FInt(plazo))

\* The loop of generar_tabla_alemana over the months desde..hasta.
RECURSIVE BucleAlemana(_, _, _, _, _)
BucleAlemana(saldo, tem, amortizacion_fija, desde, hasta) ==
  IF desde > hasta THEN [tabla |-> <<>>, saldo |-> saldo]
  ELSE IF desde = hasta
  THEN LET interes == FMul(saldo, tem)
           amortizacion == amortizacion_fija
           cuota == FAdd(amortizacion, interes)
           saldo_final == FSub(saldo, amortizacion)
       IN [tabla |-> <<Fila(desde, saldo, interes, amortizacion, cuota, saldo_final)>>,
           saldo |-> saldo_final]
  ELSE LET mitad == (desde + hasta) \div 2
           a == BucleAlemana(saldo, tem, amortizacion_fija, desde, mitad)
           b == BucleAlemana(a.saldo, tem, amortizacion_fija, mitad + 1, hasta)
       IN [tabla |-> a.tabla \o b.tabla, saldo |-> b.saldo]

generar_tabla_alemana(monto, tea, plazo) ==
  El({BucleAlemana(monto, tem, amortizacion_fija, 1, plazo).tabla :
        tem \in {tea_a_tem(tea)},
        amortizacion_fija \in {calcular_amortizacion_alemana(monto, plazo)}})

\* The sum of column col over rows desde..hasta of tabla (0 for no rows).
RECURSIVE SumaRango(_, _, _, _)
SumaRango(tabla, col, desde, hasta) ==
  IF desde > hasta THEN 0
  ELSE IF desde = hasta THEN tabla[desde][col]
  ELSE SumaRango(tabla, col, desde, (desde + hasta) \div 2)
         + SumaRango(tabla, col, ((desde + hasta) \div 2) + 1, hasta)

\* tabla_df[col].sum()
Suma(tabla, col) == SumaRango(tabla, col, 1, Len(tabla))

calcular_totales(tabla_df) ==
  [total_intereses |-> Suma(tabla_df, "interes"),
   total_amortizacion |-> Suma(tabla_df, "amortizacion"),
   total_pagado |-> Suma(tabla_df, "cuota")]

\* The columns of pd.DataFrame(filas): the keys of the rows, and none at all for
\* an empty list of rows.
Columnas(filas) == IF filas = <<>> THEN {} ELSE DOMAIN filas[1]

\* What calcular_totales(pd.DataFrame(filas)) does: tabla_df['interes'] raises
\* KeyError on a frame without that column, else the dict of sums is returned.
TotalesDeFilas(filas) ==
  IF {"interes", "amortizacion", "cuota"} \subseteq Columnas(filas)
  THEN [tipo |-> "dict"] @@ calcular_totales(filas)
  ELSE [tipo |-> "KeyError"]

(***************************************************************************)
(* modules/interes.py: total cost rate                                     *)
(***************************************************************************)
\* What a call hands back: a float, the float nan, or None.
Float(x) == [tipo |-> "float", v |-> x]
NaN == [tipo |-> "nan"]
None == [tipo |-> "None"]

\* The balance of the cash flows desde..hasta carried at rate r from balance B:
\* B * (1 + r) - flujos[k] month after month (the range is walked in halves, in
\* order, the balance of the first half being computed before the second).
RECURSIVE SaldoFlujos(_, _, _, _, _)
SaldoFlujos(B, r, flujos, desde, hasta) ==
  IF desde > hasta THEN B
  ELSE IF desde = hasta THEN FSub(FAdd(B, FMul(B, r)), flujos[desde])
  ELSE LET mitad == (desde + hasta) \div 2
           a == SaldoFlujos(B, r, flujos, desde, mitad)
       IN IF a.m = 0
          THEN SaldoFlujos(Zero, r, flujos, mitad + 1, hasta)
          ELSE SaldoFlujos(a, r, flujos, mitad + 1, hasta)

\* What is left of the disbursement -flujos[1] after every later flow, at rate r:
\* zero exactly at the internal rate of return, negative below it.
ValorFinal(flujos, r) == SaldoFlujos(FNeg(flujos[1]), r, flujos, 2, Len(flujos))

\* The positive floats from 10^-9 up, in increasing order, by index.
MantSpan == MantHi - MantLo
IrrExpMin == 0 - 16
IrrFloat(i) == [m |-> MantLo + (i % MantSpan), e |-> IrrExpMin + (i \div MantSpan)]
IrrRate(s, i) == IF i < 0 THEN Zero ELSE [m |-> s * IrrFloat(i).m, e |-> IrrFloat(i).e]

\* The index of the rate of sign s closest to zero's far side of which the final
\* balance changes sign: lo is on the near side, hi on the far side.
RECURSIVE IrrBusca(_, _, _, _)
IrrBusca(flujos, s, lo, hi) ==
  IF hi - lo <= 1 THEN lo
  ELSE LET mid == lo + ((hi - lo) \div 2)
           v == ValorFinal(flujos, IrrRate(s, mid)).m
       IN IF (s = 1 /\ v <= 0) \/ (s = -1 /\ v >= 0)
          THEN IrrBusca(flujos, s, mid, hi)
          ELSE IrrBusca(flujos, s, lo, mid)

\* The flows have no internal rate of return: the polynomial of the flows has no
\* real positive root (every flow after the first being >= 0).
SinRaiz(flujos) == flujos[1].m >= 0 \/ \A k \in 2..Len(flujos) : flujos[k].m <= 0

\* numpy_financial.irr(flujos), for flows of which every one after the first is
\* >= 0 (installments): the rate r > -1 at which the flows discount to zero.  The
\* library takes the real positive roots of the polynomial of the flows and
\* returns nan, without raising, when there is none: when the first flow is not
\* negative, or nothing is paid back.
irr(flujos) ==
  IF SinRaiz(flujos)
  THEN NaN
  ELSE El({IF b0 = 0 THEN Float(Zero)
           ELSE IF b0 < 0 THEN Float(IrrRate(1, IrrBusca(flujos, 1, -1, 19 * MantSpan)))
           ELSE Float(IrrRate(-1, IrrBusca(flujos, -1, -1, 9 * MantSpan))) :
             b0 \in {ValorFinal(flujos, Zero).m}})

\* The try block shared by the three TCEA functions: ((1 + tir) ** 12 - 1) * 100.
\* Arithmetic on nan gives nan; the except branch (None) is taken only when
\* irr raises, which it does on no vector of finite flows.
Anualizar(tir_mensual) ==
  IF tir_mensual.tipo = "nan" THEN NaN
  ELSE Float(FMul(tem_a_tea(tir_mensual.v), FInt(100)))

\* [x] * n
Repetir(x, n) == [k \in 1..n |-> x]

flujos_tcea(monto, cuota_mensual, plazo, costos_iniciales) ==
  <<FAdd(FNeg(monto), costos_iniciales)>> \o Repetir(cuota_mensual, plazo)

calcular_tcea(monto, cuota_mensual, plazo, costos_iniciales) ==
  Anualizar(irr(flujos_tcea(monto, cuota_mensual, plazo, costos_iniciales)))

\* Faulty variant: the insurance charged on the closing balance of the month.
FlujosSeguroSobreSaldoFinal(monto, tea, plazo, comision_desembolso, comision_mensual, seguro_desgravamen, portes_mensuales) ==
  LET desembolso_neto == FSub(monto, FMul(monto, comision_desembolso))
      cuota_total_mes(row) ==
        FAdd(FAdd(FAdd(FCents(row.cuota), comision_mensual),
                  FMul(FCents(row.saldo_final), seguro_desgravamen)),
             portes_mensuales)
  IN El({<<FNeg(desembolso_neto)>> \o [i \in 1..Len(tabla) |-> cuota_total_mes(tabla[i])] :
           tabla \in {generar_tabla_francesa(monto, tea, plazo)}})

\* The flows of calcular_tcea_completa: the net disbursement, negated, then per
\* row of the French schedule its stored cuota plus the monthly costs.
flujos_completa(monto, tea, plazo, comision_desembolso, comision_mensual, seguro_desgravamen, portes_mensuales) ==
  LET desembolso_neto == FSub(monto, FMul(monto, comision_desembolso))
      cuota_total_mes(row) ==
        FAdd(FAdd(FAdd(FCents(row.cuota), comision_mensual),
                  FMul(FCents(row.saldo_inicial), seguro_desgravamen)),
             portes_mensuales)
  IN El({<<FNeg(desembolso_neto)>> \o [i \in 1..Len(tabla) |-> cuota_total_mes(tabla[i])] :
           tabla \in {generar_tabla_francesa(monto, tea, plazo)}})

calcular_tcea_completa(monto, tea, plazo, comision_desembolso, comision_mensual, seguro_desgravamen, portes_mensuales) ==
  Anualizar(irr(flujos_completa(monto, tea, plazo, comision_desembolso,
                                comision_mensual, seguro_desgravamen, portes_mensuales)))

flujos_simplificada(monto, cuota_base, plazo, comisiones_totales, seguros_totales) ==
  LET costos_mensuales == FDiv(FAdd(comisiones_totales, seguros_totales), FInt(plazo))
      cuota_total_promedio == FAdd(cuota_base, costos_mensuales)
  IN <<FNeg(monto)>> \o Repetir(cuota_total_promedio, plazo)

calcular_tcea_simplificada(monto, cuota_base, plazo, comisiones_totales, seguros_totales) ==
  Anualizar(irr(flujos_simplificada(monto, cuota_base, plazo, comisiones_totales,
                                    seguros_totales)))

\* validar_tcea(tcea, tea): <<es_valida, mensaje>>.  Every comparison with nan is
\* false, so nan passes both tests.
validar_tcea(tcea, tea) ==
  LET tea_porcentaje == FMul(tea, FInt(100))
  IN IF tcea.tipo = "None"
     THEN [es_valida |-> FALSE, mensaje |-> "No se pudo calcular la TCEA"]
     ELSE IF tcea.tipo = "float" /\ FLess(tcea.v, tea_porcentaje)
     THEN [es_valida |-> FALSE, mensaje |-> "Error: TCEA no puede ser menor que TEA"]
     ELSE IF tcea.tipo = "float" /\ FLess(FMul(tea_porcentaje, FInt(3)), tcea.v)
     THEN [es_valida |-> FALSE, mensaje |-> "Advertencia: TCEA parece muy alta respecto a TEA"]
     ELSE [es_valida |-> TRUE, mensaje |-> "TCEA valida"]

\* (diferencia / tea_porcentaje) * 100, the outcomes it can have.  diferencia is
\* a numpy float64 when irr returned a root: dividing it by 0.0 gives inf, or nan
\* for 0.0 / 0.0, and does not raise.  The nan of a vector without a root is a
\* numpy scalar or the Python float numpy.nan, depending on the library's
\* version: divided by 0.0 the first gives nan, the second raises.
DiferenciaRelativa(diferencia, tea_porcentaje) ==
  IF tea_porcentaje.m # 0
  THEN {IF diferencia.tipo = "nan" THEN NaN
        ELSE Float(FMul(FDiv(diferencia.v, tea_porcentaje), FInt(100)))}
  ELSE IF diferencia.tipo = "nan" THEN {NaN, [tipo |-> "ZeroDivisionError"]}
  ELSE IF diferencia.v.m = 0 THEN {NaN}
  ELSE {[tipo |-> "inf", signo |-> Sgn(diferencia.v.m)]}

\* comparar_tea_vs_tcea from the rate calcular_tcea_completa returned: `if tcea:`
\* is false for None and for the float 0.0, and true for every other float, nan
\* included.
ResultadosComparar(tcea_, tea_porcentaje) ==
  IF tcea_.tipo = "None" \/ (tcea_.tipo = "float" /\ tcea_.v.m = 0) THEN {None}
  ELSE UNION {{IF rel.tipo = "ZeroDivisionError" THEN rel
               ELSE [tipo |-> "dict", tea |-> Float(tea_porcentaje), tcea |-> tcea_,
                     diferencia |-> diferencia, diferencia_relativa |-> rel] :
                 rel \in DiferenciaRelativa(diferencia, tea_porcentaje)} :
                diferencia \in {IF tcea_.tipo = "nan" THEN NaN
                                ELSE Float(FSub(tcea_.v, tea_porcentaje))}}

\* The outcomes of comparar_tea_vs_tcea: None, the dict, or ZeroDivisionError.
comparar_tea_vs_tcea(monto, tea, plazo, comision_desembolso, comision_mensual, seguro_desgravamen, portes) ==
  UNION {ResultadosComparar(tcea_, FMul(tea, FInt(100))) :
           tcea_ \in {calcular_tcea_completa(monto, tea, plazo, comision_desembolso,
                                             comision_mensual, seguro_desgravamen,
                                             portes)}}

(***************************************************************************)
(* modules/simulaciones.py                                                 *)
(***************************************************************************)
migracion_maxima == 360

\* The while loop of calcular_nuevo_cronograma_frances (cuota_objetivo given), at
\* most k more iterations from the loop state st = [saldo, cuota, mes_relativo,
\* tabla].  A row carries its relative month until the caller numbers it.
PasoObjetivo(st, tem) ==
  LET interes == FMul(st.saldo, tem)
      amortizacion_ == FSub(st.cuota, interes)
      ajuste == FLess(st.saldo, amortizacion_)
      amortizacion == IF ajuste THEN st.saldo ELSE amortizacion_
      cuota == IF ajuste THEN FAdd(amortizacion, interes) ELSE st.cuota
      saldo_final == FSub(st.saldo, amortizacion)
  IN [saldo |-> saldo_final,
      cuota |-> cuota,
      mes_relativo |-> st.mes_relativo + 1,
      tabla |-> Append(st.tabla, Fila(st.mes_relativo, st.saldo, interes, amortizacion,
                                      cuota, saldo_final))]

\* while saldo > 0.01 and mes_relativo <= migracion_maxima
SigueObjetivo(st) == FLess(FCents(1), st.saldo) /\ st.mes_relativo <= migracion_maxima

RECURSIVE BucleObjetivo(_, _, _)
BucleObjetivo(st, tem, k) ==
  IF k = 0 \/ ~SigueObjetivo(st) THEN st
  ELSE IF k = 1 THEN PasoObjetivo(st, tem)
  ELSE LET a == BucleObjetivo(st, tem, k \div 2)
       IN IF SigueObjetivo(a) THEN BucleObjetivo(a, tem, k - (k \div 2)) ELSE a

\* calcular_nuevo_cronograma_frances(principal, tea, plazo_restante, cuota_objetivo);
\* cuota_objetivo is None or a float, and "if cuota_objetivo:" is false for both
\* None and 0.0.
calcular_nuevo_cronograma_frances(principal, tea, plazo_restante, cuota_objetivo) ==
  IF cuota_objetivo.tipo = "float" /\ cuota_objetivo.v.m # 0
  THEN El({BucleObjetivo([saldo |-> principal, cuota |-> cuota_objetivo.v,
                          mes_relativo |-> 1, tabla |-> <<>>],
                         tem, migracion_maxima).tabla :
             tem \in {tea_a_tem(tea)}})
  ELSE El({BucleFrancesa(principal, tem, cuota, 1, plazo_restante).tabla :
             tem \in {tea_a_tem(tea)},
             cuota \in {calcular_cuota_francesa(principal, tea, plazo_restante)}})

\* tabla_original[tabla_original['mes'] <= mes_pago]: the schedules hold the
\* months 1..len in order, so these are the first mes_pago rows.
ParteAnterior(tabla_original, mes_pago) ==
  SubSeq(tabla_original, 1, IF mes_pago < 0 THEN 0 ELSE mes_pago)

\* Faulty variant: the recomputed months numbered from the month of the payment.
NumerarMesesDesdePago(df_futuro, mes_pago) ==
  [i \in 1..Len(df_futuro) |-> [df_futuro[i] EXCEPT !.mes = mes_pago + i - 1]]

\* df_futuro['mes'] = range(mes_pago + 1, mes_pago + 1 + len(df_futuro))
NumerarMeses(df_futuro, mes_pago) ==
  [i \in 1..Len(df_futuro) |-> [df_futuro[i] EXCEPT !.mes = mes_pago + i]]

\* Faulty variant of TablaNueva: the balance of the month of the payment left as
\* the schedule had it.
TablaNuevaSinRebajar(tabla_original, parte_anterior, saldo_post_extra, tea_, tipo_reduccion) ==
  IF saldo_post_extra.m <= 0
  THEN parte_anterior
  ELSE parte_anterior
       \o NumerarMeses(
            calcular_nuevo_cronograma_frances(
              saldo_post_extra, tea_, Len(tabla_original) - Len(parte_anterior),
              IF tipo_reduccion = "Plazo" THEN Float(FCents(tabla_original[1].cuota)) ELSE None),
            Len(parte_anterior))

\* Faulty variant of TablaNueva: the months after the payment recomputed even
\* when nothing is left to pay.
TablaNuevaSiempreFuturo(tabla_original, parte_anterior, saldo_post_extra, tea_, tipo_reduccion) ==
  [parte_anterior EXCEPT ![Len(parte_anterior)].saldo_final = Round2(saldo_post_extra)]
  \o NumerarMeses(
       calcular_nuevo_cronograma_frances(
         saldo_post_extra, tea_, Len(tabla_original) - Len(parte_anterior),
         IF tipo_reduccion = "Plazo" THEN Float(FCents(tabla_original[1].cuota)) ELSE None),
       Len(parte_anterior))

\* Faulty variant of TablaNueva: the months after the payment recomputed over
\* the whole original term.
TablaNuevaPlazoEntero(tabla_original, parte_anterior, saldo_post_extra, tea_, tipo_reduccion) ==
  IF saldo_post_extra.m <= 0
  THEN [parte_anterior EXCEPT ![Len(parte_anterior)].saldo_final = Round2(saldo_post_extra)]
  ELSE [parte_anterior EXCEPT ![Len(parte_anterior)].saldo_final = Round2(saldo_post_extra)]
       \o NumerarMeses(
            calcular_nuevo_cronograma_frances(
              saldo_post_extra, tea_, Len(tabla_original),
              IF tipo_reduccion = "Plazo" THEN Float(FCents(tabla_original[1].cuota)) ELSE None),
            Len(parte_anterior))

\* The schedule after the extra payment left saldo_post_extra of the balance of
\* the last row of parte_anterior: that row with the balance written into it,
\* and the recomputed months after it unless everything was paid.
TablaNueva(tabla_original, parte_anterior, saldo_post_extra, tea_, tipo_reduccion) ==
  IF saldo_post_extra.m <= 0
  THEN [parte_anterior EXCEPT ![Len(parte_anterior)].saldo_final = Round2(saldo_post_extra)]
  ELSE [parte_anterior EXCEPT ![Len(parte_anterior)].saldo_final = Round2(saldo_post_extra)]
       \o NumerarMeses(
            calcular_nuevo_cronograma_frances(
              saldo_post_extra, tea_, Len(tabla_original) - Len(parte_anterior),
              IF tipo_reduccion = "Plazo" THEN Float(FCents(tabla_original[1].cuota)) ELSE None),
            Len(parte_anterior))

\* Faulty variant of ResumenPago: the new total paid without the extra payment.
ResumenPagoSinExtra(tabla_original, tabla_nueva, totales_original, totales_nuevo, monto_extra) ==
  [tipo |-> "dict",
   tabla_actualizada |-> tabla_nueva,
   resumen |->
     [interes_original |-> totales_original.total_intereses,
      interes_nuevo |-> totales_nuevo.total_intereses,
      ahorro_intereses |-> totales_original.total_intereses - totales_nuevo.total_intereses,
      total_pagado_original |-> totales_original.total_pagado,
      total_pagado_nuevo_real |-> totales_nuevo.total_pagado,
      meses_ahorrados |-> Len(tabla_original) - Len(tabla_nueva),
      nuevo_plazo |-> Len(tabla_nueva)]]

\* The dict simular_pago_extraordinario returns, from the totals of both schedules.
ResumenPago(tabla_original, tabla_nueva, totales_original, totales_nuevo, monto_extra) ==
  [tipo |-> "dict",
   tabla_actualizada |-> tabla_nueva,
   resumen |->
     [interes_original |-> totales_original.total_intereses,
      interes_nuevo |-> totales_nuevo.total_intereses,
      ahorro_intereses |-> totales_original.total_intereses - totales_nuevo.total_intereses,
      total_pagado_original |-> totales_original.total_pagado,
      total_pagado_nuevo_real |-> totales_nuevo.total_pagado + Round2(monto_extra),
      meses_ahorrados |-> Len(tabla_original) - Len(tabla_nueva),
      nuevo_plazo |-> Len(tabla_nueva)]]

\* simular_pago_extraordinario past its range check and the read of
\* parte_anterior.iloc[-1] (1 <= mes_pago < len(tabla_original)).  monto_extra
\* is an amount in whole cents, so the balance after the extra payment, which
\* the code writes unrounded into the row of mes_pago, is one too.
ResultadoPagoExtraordinario(tabla_original, mes_pago, monto_extra, tea_, tipo_reduccion) ==
  El({ResumenPago(tabla_original, tabla_nueva, calcular_totales(tabla_original),
                  calcular_totales(tabla_nueva), monto_extra) :
        tabla_nueva \in
          {TablaNueva(tabla_original, parte_anterior,
                      Max0(FSub(FCents(parte_anterior[Len(parte_anterior)].saldo_final),
                                monto_extra)),
                      tea_, tipo_reduccion) :
             parte_anterior \in {ParteAnterior(tabla_original, mes_pago)}}})

\* What a call of simular_pago_extraordinario does: return None, raise, or
\* return the dict.  Only the upper end of the range is checked; with
\* mes_pago <= 0 no row precedes the payment and .iloc[-1] raises IndexError.
simular_pago_extraordinario(tabla_original, mes_pago, monto_extra, tea_, tipo_reduccion) ==
  IF mes_pago >= Len(tabla_original) THEN None
  ELSE IF Len(ParteAnterior(tabla_original, mes_pago)) = 0 THEN [tipo |-> "IndexError"]
  ELSE ResultadoPagoExtraordinario(tabla_original, mes_pago, monto_extra, tea_, tipo_reduccion)

max_iter == 360

\* One row of simular_pagos_recurrentes, as tabla.append stores it.
FilaRecurrente(mes, saldo, interes, amortizacion, pago_mes, extra, pago_total, saldo_final) ==
  [mes |-> mes,
   saldo_inicial |-> Round2(saldo),
   interes |-> Round2(interes),
   amortizacion |-> Round2(amortizacion),
   cuota_base |-> Round2(pago_mes),
   pago_extra |-> Round2(IF FLess(pago_mes, pago_total) THEN extra
                         ELSE Max0(FSub(pago_total, pago_mes))),
   total_pagado |-> Round2(pago_total),
   saldo_final |-> Round2(Max0(saldo_final))]

\* One iteration of the while loop of simular_pagos_recurrentes from the loop
\* state st = [saldo, mes, tabla].
PasoRecurrente(st, tem, cuota_base, monto_extra_mensual, desde_mes) ==
  LET interes == FMul(st.saldo, tem)
      extra == IF st.mes >= desde_mes THEN monto_extra_mensual ELSE Zero
      pago_total_ == FAdd(cuota_base, extra)
      amortizacion_ == FSub(pago_total_, interes)
      ajuste == FLess(st.saldo, amortizacion_)
      amortizacion == IF ajuste THEN st.saldo ELSE amortizacion_
      pago_total == IF ajuste THEN FAdd(amortizacion, interes) ELSE pago_total_
      saldo_final == FSub(st.saldo, amortizacion)
  IN [saldo |-> saldo_final,
      mes |-> st.mes + 1,
      tabla |-> Append(st.tabla, FilaRecurrente(st.mes, st.saldo, interes, amortizacion,
                                                cuota_base, extra, pago_total, saldo_final))]

\* while saldo > 0.01 and mes <= max_iter
SigueRecurrente(st) == FLess(FCents(1), st.saldo) /\ st.mes <= max_iter

\* At most k more iterations of the loop.
RECURSIVE BucleRecurrente(_, _, _, _, _, _)
BucleRecurrente(st, tem, cuota_base, monto_extra_mensual, desde_mes, k) ==
  IF k = 0 \/ ~SigueRecurrente(st) THEN st
  ELSE IF k = 1 THEN PasoRecurrente(st, tem, cuota_base, monto_extra_mensual, desde_mes)
  ELSE LET a == BucleRecurrente(st, tem, cuota_base, monto_extra_mensual, desde_mes, k \div 2)
       IN IF SigueRecurrente(a)
          THEN BucleRecurrente(a, tem, cuota_base, monto_extra_mensual, desde_mes,
                               k - (k \div 2))
          ELSE a

simular_pagos_recurrentes(monto_prestamo, tea_, plazo_total, monto_extra_mensual, desde_mes) ==
  El({BucleRecurrente([saldo |-> monto_prestamo, mes |-> 1, tabla |-> <<>>],
                      tem, cuota_base, monto_extra_mensual, desde_mes, max_iter).tabla :
        tem \in {tea_a_tem(tea_)},
        cuota_base \in {calcular_cuota_francesa(monto_prestamo, tea_, plazo_total)}})

\* One iteration of the while loop of _simular_pagos_periodicos; its rows hold
\* the floats as they are, not rounded.
PasoPeriodico(st, tem, cuota_base, monto_extra, periodo_meses) ==
  LET interes == FMul(st.saldo, tem)
      extra == IF (st.mes % periodo_meses) = 0 THEN monto_extra ELSE Zero
      pago_total == FAdd(cuota_base, extra)
      amortizacion_ == FSub(pago_total, interes)
      amortizacion == IF FLess(st.saldo, amortizacion_) THEN st.saldo ELSE amortizacion_
      saldo_final == FSub(st.saldo, amortizacion)
  IN [saldo |-> saldo_final,
      mes |-> st.mes + 1,
      tabla |-> Append(st.tabla, [mes |-> st.mes, interes |-> interes,
                                  amortizacion |-> amortizacion, cuota |-> pago_total,
                                  saldo_final |-> saldo_final])]

RECURSIVE BuclePeriodico(_, _, _, _, _, _)
BuclePeriodico(st, tem, cuota_base, monto_extra, periodo_meses, k) ==
  IF k = 0 \/ ~SigueRecurrente(st) THEN st
  ELSE IF k = 1 THEN PasoPeriodico(st, tem, cuota_base, monto_extra, periodo_meses)
  ELSE LET a == BuclePeriodico(st, tem, cuota_base, monto_extra, periodo_meses, k \div 2)
       IN IF SigueRecurrente(a)
          THEN BuclePeriodico(a, tem, cuota_base, monto_extra, periodo_meses, k - (k \div 2))
          ELSE a

\* _simular_pagos_periodicos(monto, tea, plazo, monto_extra, periodo_meses)
simular_pagos_periodicos(monto_, tea_, plazo_, monto_extra, periodo_meses) ==
  El({BuclePeriodico([saldo |-> monto_, mes |-> 1, tabla |-> <<>>],
                     tem, cuota_base, monto_extra, periodo_meses, max_iter).tabla :
        tem \in {tea_a_tem(tea_)},
        cuota_base \in {calcular_cuota_francesa(monto_, tea_, plazo_)}})

\* acc plus the floats of column col over rows desde..hasta, added in row order.
RECURSIVE SumaFlotante(_, _, _, _, _)
SumaFlotante(acc, tabla_df, col, desde, hasta) ==
  IF desde > hasta THEN acc
  ELSE IF desde = hasta THEN FAdd(acc, tabla_df[desde][col])
  ELSE SumaFlotante(SumaFlotante(acc, tabla_df, col, desde, (desde + hasta) \div 2),
                    tabla_df, col, ((desde + hasta) \div 2) + 1, hasta)

\* One entry of the list of comparar_estrategias_prepago.
Estrategia(nombre, interes_total, plazo_, interes_base) ==
  [nombre |-> nombre, interes_total |-> interes_total, plazo |-> plazo_,
   ahorro |-> FSub(interes_base, interes_total)]

\* The entries appended, in order, from the three schedules computed.
ListaEstrategias(base_df, df_mensual, df_anual) ==
  <<[nombre |-> "Sin Prepago", interes_total |-> FCents(Suma(base_df, "interes")),
     plazo |-> Len(base_df), ahorro |-> Zero],
    Estrategia("Pago Mensual", FCents(Suma(df_mensual, "interes")), Len(df_mensual),
               FCents(Suma(base_df, "interes"))),
    Estrategia("Pago Anual", SumaFlotante(Zero, df_anual, "interes", 1, Len(df_anual)),
               Len(df_anual), FCents(Suma(base_df, "interes")))>>

comparar_estrategias_prepago(monto_prestamo, tea_, plazo_, presupuesto_anual_extra) ==
  El({ListaEstrategias(
        calcular_nuevo_cronograma_frances(monto_prestamo, tea_, plazo_, None),
        simular_pagos_recurrentes(monto_prestamo, tea_, plazo_, monto_mensual, 1),
        simular_pagos_periodicos(monto_prestamo, tea_, plazo_, presupuesto_anual_extra, 12)) :
      monto_mensual \in {FDiv(presupuesto_anual_extra, FInt(12))}})

(***************************************************************************)
(* The loans drawn                                                         *)
(***************************************************************************)
\* Principals, in hundredths: 123.36 and its multiples, whose installments do not
\* fall on a cent, and round amounts.  All are multiples of 0.16, so that no
\* principal / plazo lies halfway between two cents (where round() follows the
\* binary expansion), and below 10 000, so that 8 digits reach well below the cent.
Montos == <<12336, 24672, 37008, 100000, 250000, 500000, 750000>>
\* Annual effective rates, in percent.
Teas == <<0, 1, 5, 20, 35, 60>>
MaxMonto == 4
MaxTea == 4
MaxPlazo == 8
\* A term just above the cap of the reschedule is drawn as well, for the small
\* principals and low rates whose balance an 8-digit mantissa carries through
\* that many rows as binary64 does.
PlazoLargo == migracion_maxima + 1
MaxMontoLargo == 2
MaxTeaLargo == 2

PrestamosCortos ==
  {<<Montos[i], Teas[j], n>> : i \in 1..MaxMonto, j \in 1..MaxTea, n \in 1..MaxPlazo}
PrestamosLargos ==
  {<<Montos[i], Teas[j], PlazoLargo>> : i \in 1..MaxMontoLargo, j \in 1..MaxTeaLargo}

\* A term past the twelfth month, at which the yearly extra payment of
\* _simular_pagos_periodicos falls due.
PlazoAnual == 13
PrestamosAnuales ==
  {<<Montos[i], Teas[j], PlazoAnual>> : i \in 1..MaxMonto, j \in 1..MaxTea}

\* A loan whose third month's interest falls within a hundred-thousandth of a
\* half cent: 246.72 at 35 % over 3 months.
PrestamosAlCentimo == {<<Montos[2], Teas[5], 3>>}

\* Loans outside the engine's domain: a principal of 0 or below, a term of 0
\* months, an annual rate of -100 %.
MontosInvalidos == <<0, -12336>>
TeaInvalida == 0 - 100
PrestamosInvalidos ==
  {<<MontosInvalidos[i], Teas[j], n>> :
     i \in 1..Len(MontosInvalidos), j \in 1..MaxTea, n \in 1..MaxPlazo}
    \cup {<<Montos[i], Teas[j], 0>> : i \in 1..MaxMonto, j \in 1..MaxTea}
    \cup {<<Montos[i], TeaInvalida, n>> : i \in 1..MaxMonto, n \in 1..MaxPlazo}

\* The highest rate the simulator's form accepts, in percent, over a term at which
\* (1 + tem) ** plazo exceeds 2^53: there 1 + w = w in binary64 as it does at 8
\* digits, and the annuity formula gives the interest-only installment.
TeaExtrema == 200
PlazoExtremo == 420
MaxMontoExtremo == 1
PrestamosExtremos == {<<Montos[i], TeaExtrema, PlazoExtremo>> : i \in 1..MaxMontoExtremo}

\* Cost profiles of calcular_tcea_completa: comision_desembolso in 1/10000,
\* comision_mensual in cents, seguro_desgravamen in 1/1000000, portes_mensuales
\* in cents.  No costs; the docstring's example (1%, 5.00, 0.05%, 3.00); an
\* origination fee that takes the whole loan.
Costos == <<<<0, 0, 0, 0>>, <<100, 500, 500, 300>>, <<10000, 0, 0, 0>>, <<0, 500, 0, 0>>>>
MaxCosto == 3
\* Extra payments, in cents: 50.00, one above every principal drawn, and the
\* smallest amount there is, 0.01.
Extras == <<5000, 1000000, 1, 10000>>
MaxExtra == 3
\* Monthly extra payments, in cents: 50.00, 82.40, and 0.01.
ExtrasMensuales == <<5000, 8240, 1, 20000>>
MaxExtraMensual == 3
\* Annual budgets of extra payments, in cents: 2400.00 and 1200.00.
Presupuestos == <<240000, 120000, 100000>>
MaxPresupuesto == 2

(***************************************************************************)
(* State                                                                   *)
(***************************************************************************)
VARIABLES
  monto,      \* principal (float)
  tea,        \* annual effective rate, as a fraction (float)
  plazo,      \* term in months (int)
  sistema,    \* the generator that produced tabla: "Frances", "Aleman" or "" (none yet)
  tabla,      \* the schedule held by the caller: a sequence of rows
  totales,    \* the value of calcular_totales(tabla), or Pendiente
  excepcion,  \* the exception the last call raised, "" if it returned
  funcion,    \* the TCEA function last called, "" if none
  args,       \* its cost arguments
  flujos,     \* the cash flows it handed to irr
  tcea,       \* what it returned
  validacion, \* the value of validar_tcea(tcea, tea), or Pendiente
  pago,       \* the arguments of the last simular_pago_extraordinario call
  simulacion, \* what it returned, or Pendiente
  cronograma, \* the last call of calcular_nuevo_cronograma_frances and its result, or Pendiente
  recurrentes, \* the last call of simular_pagos_recurrentes and its result, or Pendiente
  estrategias, \* the last call of comparar_estrategias_prepago and its result, or Pendiente
  conversion, \* what tea_a_tem(tea) returned, or Pendiente
  comparacion \* what comparar_tea_vs_tcea returned, or Pendiente

prestamo == <<monto, tea, plazo>>
amort == <<sistema, tabla, totales>>
costo == <<funcion, args, flujos, tcea, validacion>>
prepago == <<pago, simulacion>>
llamadas == <<cronograma, recurrentes, estrategias>>
tasas == <<conversion, comparacion>>
vars == <<monto, tea, plazo, sistema, tabla, totales, excepcion,
          funcion, args, flujos, tcea, validacion, pago, simulacion,
          cronograma, recurrentes, estrategias, conversion, comparacion>>

Pendiente == [tipo |-> "pendiente"]

\* Faulty variant: the annuity divisor without the zero-rate branch.
DivisorSinRamaCero(tea_, plazo_) == PowM1(tea_a_tem(tea_), plazo_)

\* The divisor of the installment formula: plazo under the zero-rate branch,
\* (1 + tem) ** plazo - 1 otherwise.
DivisorCuota(tea_, plazo_) ==
  El({IF tem.m = 0 THEN FInt(plazo_) ELSE PowM1(tem, plazo_) : tem \in {tea_a_tem(tea_)}})

\* The state of a caller that holds the loan p and has called nothing yet.
Inicio(p) ==
  /\ monto = FCents(p[1])
  /\ tea = FCents(p[2])
  /\ plazo = p[3]
  /\ sistema = ""
  /\ tabla = <<>>
  /\ totales = Pendiente
  /\ excepcion = ""
  /\ funcion = ""
  /\ args = <<>>
  /\ flujos = <<>>
  /\ tcea = Pendiente
  /\ validacion = Pendiente
  /\ pago = Pendiente
  /\ simulacion = Pendiente
  /\ cronograma = Pendiente
  /\ recurrentes = Pendiente
  /\ estrategias = Pendiente
  /\ conversion = Pendiente
  /\ comparacion = Pendiente

Init == \E p \in PrestamosCortos \cup PrestamosLargos \cup PrestamosExtremos : Inicio(p)
InitCorto == \E p \in PrestamosCortos : Inicio(p)

\* tabla = generar_tabla_francesa(monto, tea, plazo), by a caller that holds no schedule
GenerarTablaFrancesa ==
  /\ sistema = ""
  /\ IF DivisorCuota(tea, plazo).m = 0
     THEN /\ excepcion' = "ZeroDivisionError"
          /\ UNCHANGED <<sistema, tabla>>
     ELSE /\ excepcion' = ""
          /\ tabla' = generar_tabla_francesa(monto, tea, plazo)
          /\ sistema' = "Frances"
  /\ totales' = Pendiente
  /\ UNCHANGED <<prestamo, costo, prepago, llamadas, tasas>>

\* tabla = generar_tabla_alemana(monto, tea, plazo), by a caller that holds no schedule
GenerarTablaAlemana ==
  /\ sistema = ""
  /\ IF plazo = 0
     THEN /\ excepcion' = "ZeroDivisionError"
          /\ UNCHANGED <<sistema, tabla>>
     ELSE /\ excepcion' = ""
          /\ tabla' = generar_tabla_alemana(monto, tea, plazo)
          /\ sistema' = "Aleman"
  /\ totales' = Pendiente
  /\ UNCHANGED <<prestamo, costo, prepago, llamadas, tasas>>

\* totales = calcular_totales(tabla), on a generated schedule
CalcularTotales ==
  /\ sistema # ""
  /\ totales = Pendiente
  /\ totales' = [tipo |-> "dict"] @@ calcular_totales(tabla)
  /\ excepcion' = ""
  /\ UNCHANGED <<prestamo, sistema, tabla, costo, prepago, llamadas, tasas>>

Next ==
  \/ GenerarTablaFrancesa
  \/ GenerarTablaAlemana
  \/ CalcularTotales

Spec == Init /\ [][Next]_vars

\* tcea = calcular_tcea_completa(monto, tea, plazo, <a cost profile>)
CalcularTceaCompleta ==
  /\ tcea = Pendiente
  /\ \E c \in 1..MaxCosto :
       /\ args' = [comision_desembolso |-> Norm(Costos[c][1], -4),
                   comision_mensual |-> FCents(Costos[c][2]),
                   seguro_desgravamen |-> Norm(Costos[c][3], -6),
                   portes_mensuales |-> FCents(Costos[c][4])]
       /\ flujos' = flujos_completa(monto, tea, plazo, args'.comision_desembolso,
                                    args'.comision_mensual, args'.seguro_desgravamen,
                                    args'.portes_mensuales)
  /\ tcea' = Anualizar(irr(flujos'))
  /\ funcion' = "calcular_tcea_completa"
  /\ excepcion' = ""
  /\ UNCHANGED <<prestamo, amort, validacion, prepago, llamadas, tasas>>

\* The installment a caller passes for the loan: the stored cuota of its schedule.
CuotaAlmacenada == FCents(generar_tabla_francesa(monto, tea, plazo)[1].cuota)

\* tcea = calcular_tcea(monto, cuota, plazo, costos_iniciales), the up-front
\* costs being nothing, 50.00, the whole principal or twice the principal
CalcularTcea ==
  /\ tcea = Pendiente
  /\ \E cuota_mensual \in {CuotaAlmacenada},
        costos_iniciales \in {Zero, FCents(Extras[1]), monto, FAdd(monto, monto)} :
       /\ args' = [cuota_mensual |-> cuota_mensual, costos_iniciales |-> costos_iniciales]
       /\ flujos' = flujos_tcea(monto, cuota_mensual, plazo, costos_iniciales)
  /\ tcea' = Anualizar(irr(flujos'))
  /\ funcion' = "calcular_tcea"
  /\ excepcion' = ""
  /\ UNCHANGED <<prestamo, amort, validacion, prepago, llamadas, tasas>>

\* tcea = calcular_tcea_simplificada(monto, cuota_base, plazo, comisiones, seguros),
\* the base installment being the loan's or nothing
CalcularTceaSimplificada ==
  /\ tcea = Pendiente
  /\ \E cuota_base \in {CuotaAlmacenada, Zero},
        comisiones_totales \in {Zero, FCents(Costos[2][2] * plazo)},
        seguros_totales \in {Zero, FCents(Costos[2][4] * plazo)} :
       /\ args' = [cuota_base |-> cuota_base, comisiones_totales |-> comisiones_totales,
                   seguros_totales |-> seguros_totales]
       /\ flujos' = flujos_simplificada(monto, cuota_base, plazo, comisiones_totales,
                                        seguros_totales)
  /\ tcea' = Anualizar(irr(flujos'))
  /\ funcion' = "calcular_tcea_simplificada"
  /\ excepcion' = ""
  /\ UNCHANGED <<prestamo, amort, validacion, prepago, llamadas, tasas>>

\* validacion = validar_tcea(tcea, tea), on what a TCEA function returned
ValidarTcea ==
  /\ tcea # Pendiente
  /\ validacion = Pendiente
  /\ validacion' = [tipo |-> "tuple"] @@ validar_tcea(tcea, tea)
  /\ excepcion' = ""
  /\ UNCHANGED <<prestamo, amort, funcion, args, flujos, tcea, prepago, llamadas, tasas>>

NextTcea ==
  \/ CalcularTceaCompleta
  \/ CalcularTcea
  \/ CalcularTceaSimplificada
  \/ ValidarTcea

SpecTcea == InitCorto /\ [][NextTcea]_vars

\* comparacion = comparar_tea_vs_tcea(monto, tea, plazo, costs of the loan)
CompararTeaVsTcea ==
  /\ comparacion = Pendiente
  /\ \E c \in 1..MaxCosto :
       \E a \in {[comision_desembolso |-> Norm(Costos[c][1], -4),
                   comision_mensual |-> FCents(Costos[c][2]),
                   seguro_desgravamen |-> Norm(Costos[c][3], -6),
                   portes |-> FCents(Costos[c][4])]} :
         \E r \in comparar_tea_vs_tcea(monto, tea, plazo, a.comision_desembolso,
                                        a.comision_mensual, a.seguro_desgravamen,
                                        a.portes) :
           /\ comparacion' = [tipo |-> "llamada", args |-> a, resultado |-> r]
           /\ excepcion' = IF r.tipo = "ZeroDivisionError" THEN r.tipo ELSE ""
  /\ UNCHANGED <<prestamo, amort, costo, prepago, llamadas, conversion>>

NextComparar == CompararTeaVsTcea

SpecComparar == InitCorto /\ [][NextComparar]_vars

\* The months a payment is tried at: around both ends of the schedule, and inside.
MesesPago(n) == {-1, 0, 1, n \div 2, n - 1, n, n + 1}

\* simulacion = simular_pago_extraordinario(tabla, mes_pago, monto_extra, tea, tipo)
\* on the French schedule of the loan
SimularPagoExtraordinario ==
  /\ sistema = "Frances"
  /\ pago = Pendiente
  /\ \E mes_pago \in MesesPago(Len(tabla)), x \in 1..MaxExtra, tipo_reduccion \in {"Cuota", "Plazo"} :
       \E r \in {simular_pago_extraordinario(tabla, mes_pago, FCents(Extras[x]), tea,
                                             tipo_reduccion)} :
          /\ pago' = [tipo |-> "args", mes_pago |-> mes_pago, monto_extra |-> Extras[x],
                      tipo_reduccion |-> tipo_reduccion]
          /\ IF r.tipo = "IndexError"
             THEN excepcion' = "IndexError" /\ simulacion' = Pendiente
             ELSE excepcion' = "" /\ simulacion' = r
  /\ UNCHANGED <<prestamo, amort, costo, llamadas, tasas>>

NextSim ==
  \/ GenerarTablaFrancesa
  \/ SimularPagoExtraordinario

SpecSim == InitCorto /\ [][NextSim]_vars

\* cronograma = calcular_nuevo_cronograma_frances(monto, tea, plazo, cuota_objetivo),
\* the fixed installment being none, the loan's own, or 0.01.  The function has
\* no raise statement: it returns the rows its loop appended.
CalcularNuevoCronograma ==
  /\ cronograma = Pendiente
  /\ \E cuota_objetivo \in {None, Float(CuotaAlmacenada), Float(FCents(1))} :
       cronograma' = [tipo |-> "llamada", cuota_objetivo |-> cuota_objetivo,
                      tabla |-> calcular_nuevo_cronograma_frances(monto, tea, plazo,
                                                                  cuota_objetivo)]
  /\ excepcion' = ""
  /\ UNCHANGED <<prestamo, amort, costo, prepago, recurrentes, estrategias, tasas>>

NextCronograma == CalcularNuevoCronograma

SpecCronograma == InitCorto /\ [][NextCronograma]_vars

\* The months the extra payments start at: the first, the second, and the last
\* of the term (past the cap of the loop for the long terms).
DesdeMeses(n) == {1, 2, n}

\* The monthly extras a call is made with, in cents: those above, and none.
ExtrasRecurrentes == {0} \cup {ExtrasMensuales[x] : x \in 1..MaxExtraMensual}

\* recurrentes = simular_pagos_recurrentes(monto, tea, plazo, extra, desde_mes)
SimularPagosRecurrentes ==
  /\ recurrentes = Pendiente
  /\ \E extra_mensual \in ExtrasRecurrentes, desde_mes \in DesdeMeses(plazo) :
       recurrentes' = [tipo |-> "llamada", monto_extra_mensual |-> extra_mensual,
                       desde_mes |-> desde_mes,
                       tabla |-> simular_pagos_recurrentes(monto, tea, plazo,
                                                           FCents(extra_mensual),
                                                           desde_mes)]
  /\ excepcion' = ""
  /\ UNCHANGED <<prestamo, amort, costo, prepago, cronograma, estrategias, tasas>>

NextRecurrentes == SimularPagosRecurrentes

InitRecurrentes == \E p \in PrestamosCortos \cup PrestamosLargos : Inicio(p)

SpecRecurrentes == InitRecurrentes /\ [][NextRecurrentes]_vars

\* estrategias = comparar_estrategias_prepago(monto, tea, plazo, presupuesto)
CompararEstrategiasPrepago ==
  /\ estrategias = Pendiente
  /\ \E b \in 1..MaxPresupuesto :
       estrategias' = [tipo |-> "llamada", presupuesto_anual_extra |-> Presupuestos[b],
                       lista |-> comparar_estrategias_prepago(monto, tea, plazo,
                                                              FCents(Presupuestos[b]))]
  /\ excepcion' = ""
  /\ UNCHANGED <<prestamo, amort, costo, prepago, cronograma, recurrentes, tasas>>

NextEstrategias == CompararEstrategiasPrepago

InitEstrategias == \E p \in PrestamosCortos \cup PrestamosAnuales : Inicio(p)

SpecEstrategias == InitEstrategias /\ [][NextEstrategias]_vars

\* The balances a schedule is recomputed from: the loan's principal, and 0.01,
\* the balance at which the loops of the simulator stop.
SaldosIniciales == {monto, FCents(1)}

\* totales = calcular_totales(calcular_nuevo_cronograma_frances(principal, tea,
\* plazo, cuota_objetivo)), with the loan's installment as cuota_objetivo or none
TotalesNuevoCronograma ==
  /\ cronograma = Pendiente
  /\ \E principal \in SaldosIniciales, cuota_objetivo \in {None, Float(CuotaAlmacenada)} :
       \E df \in {calcular_nuevo_cronograma_frances(principal, tea, plazo, cuota_objetivo)} :
          /\ cronograma' = [tipo |-> "llamada", principal |-> principal,
                            cuota_objetivo |-> cuota_objetivo, tabla |-> df]
          /\ IF TotalesDeFilas(df).tipo = "KeyError"
             THEN excepcion' = "KeyError" /\ totales' = Pendiente
             ELSE excepcion' = "" /\ totales' = TotalesDeFilas(df)
  /\ UNCHANGED <<prestamo, sistema, tabla, costo, prepago, recurrentes, estrategias, tasas>>

NextTotales == TotalesNuevoCronograma

SpecTotales == InitCorto /\ [][NextTotales]_vars

\* The generators on the short loans, on the loan at the highest rate and on
\* the loan at the half cent.
InitRedondeo ==
  \E p \in PrestamosCortos \cup PrestamosExtremos \cup PrestamosAlCentimo : Inicio(p)

SpecRedondeo == InitRedondeo /\ [][Next]_vars

\* conversion = tea_a_tem(tea)
ConvertirTea ==
  /\ conversion = Pendiente
  /\ conversion' = Float(tea_a_tem(tea))
  /\ excepcion' = ""
  /\ UNCHANGED <<prestamo, amort, costo, prepago, llamadas, comparacion>>

\* The generators and the rate converter, called with a loan outside the domain.
NextInvalidos ==
  \/ GenerarTablaFrancesa
  \/ GenerarTablaAlemana
  \/ ConvertirTea

InitInvalido == \E p \in PrestamosInvalidos : Inicio(p)

SpecInvalidos == InitInvalido /\ [][NextInvalidos]_vars

(***************************************************************************)
(* Properties of the schedules (Spec)                                      *)
(***************************************************************************)
Filas == 1..Len(tabla)
MontoCentimos == Round2(monto)

\* C1: a generated schedule, French or German, has exactly plazo rows, and row i
\* carries month i: months 1, 2, ..., plazo in order, with no gap and no repeat,
\* terms above 360 included.
C1_FilasPorPlazo ==
  sistema # "" => /\ Len(tabla) = plazo
                  /\ \A i \in Filas : tabla[i].mes = i
C1_Witness == sistema # "" /\ excepcion = "" /\ Len(tabla) > migracion_maxima

\* C2: in every row of a generated schedule the stored closing balance is >= 0,
\* and the stored closing balance of the last row is exactly 0.
C2_SaldoFinal ==
  sistema # "" => /\ \A i \in Filas : tabla[i].saldo_final >= 0
                  /\ tabla[Len(tabla)].saldo_final = 0

\* The last row pays off what it opens with: its stored principal portion is
\* within one cent of its stored opening balance.
UltimaFilaLiquida ==
  Abs(tabla[Len(tabla)].saldo_inicial - tabla[Len(tabla)].amortizacion) <= 1

C4_CuotaConstante ==
  (sistema = "Frances" /\ tea.m > 0)
    => \E cuota \in {Round2(calcular_cuota_francesa(monto, tea, plazo))} :
         \A i \in Filas : tabla[i].cuota = cuota
C4_Witness ==
  /\ sistema = "Frances" /\ tea.m > 0 /\ Len(tabla) > 1
  /\ FCents(tabla[1].cuota) # calcular_cuota_francesa(monto, tea, plazo)

\* The monthly fall of the German installment before rounding: the fixed
\* principal portion times the monthly rate.
CaidaMensual == FMul(calcular_amortizacion_alemana(monto, plazo), tea_a_tem(tea))

SaldoPrevio(i) == IF i = 1 THEN MontoCentimos ELSE tabla[i - 1].saldo_final
SaldoRestado(i) ==
  IF tabla[i].saldo_inicial - tabla[i].amortizacion > 0
  THEN tabla[i].saldo_inicial - tabla[i].amortizacion ELSE 0

C7_TasaCero ==
  tea.m = 0
    => /\ excepcion # "ZeroDivisionError"
       /\ sistema = "Frances"
            => /\ calcular_cuota_francesa(monto, tea, plazo) = FDiv(monto, FInt(plazo))
               /\ \A i \in Filas : /\ tabla[i].cuota = Round2(FDiv(monto, FInt(plazo)))
                                   /\ tabla[i].interes = 0
               /\ totales.tipo = "dict" => totales.total_intereses = 0
C7_Witness ==
  tea.m = 0 /\ sistema = "Frances" /\ Len(tabla) > 1 /\ totales.tipo = "dict"

(***************************************************************************)
(* Properties of the total cost rate (SpecTcea)                            *)
(***************************************************************************)
\* C8: with every ancillary cost >= 0, all of them zero included, the percentage
\* calcular_tcea_completa returns is >= TEA x 100.
C8_TceaNoMenorQueTea ==
  (funcion = "calcular_tcea_completa" /\ tcea.tipo = "float")
    => ~FLess(tcea.v, FMul(tea, FInt(100)))

\* C9: when the flows handed to the solver have no internal rate of return, each
\* of the three TCEA functions reports the failure (None) and hands the caller no
\* float.
C9_FalloDistinguible ==
  (funcion # "" /\ SinRaiz(flujos)) => tcea = None

(***************************************************************************)
(* Properties of the one-time prepayment (SpecSim)                         *)
(***************************************************************************)
\* C10: simular_pago_extraordinario returns None, without raising, for every
\* mes_pago outside the schedule (mes_pago <= 0 as well as mes_pago >= number of
\* rows), and returns a result for every mes_pago in 1..rows-1.
C10_MesFueraDeRango ==
  pago.tipo = "args"
    => IF pago.mes_pago <= 0 \/ pago.mes_pago >= Len(tabla)
       THEN simulacion = None /\ excepcion = ""
       ELSE simulacion.tipo = "dict" /\ excepcion = ""

\* The schedule the last call returned, and the row of the month of the payment
\* in the schedule it was given.
TablaActualizada == simulacion.tabla_actualizada
FilaPago == tabla[pago.mes_pago]
\* max(0, closing balance of the month of the payment - monto_extra), in cents
SaldoTrasPago ==
  IF FilaPago.saldo_final > pago.monto_extra THEN FilaPago.saldo_final - pago.monto_extra ELSE 0

\* The first mes_pago rows of the returned schedule are the rows of the original
\* in every column, but for the closing balance of row mes_pago.
HistoriaConservada ==
  /\ Len(TablaActualizada) >= pago.mes_pago
  /\ \A i \in 1..pago.mes_pago :
       TablaActualizada[i] =
         IF i < pago.mes_pago THEN tabla[i]
         ELSE [FilaPago EXCEPT !.saldo_final = SaldoTrasPago]

\* C11: a call of simular_pago_extraordinario leaves the schedule it is given as
\* it was, and in the schedule it returns rows 1..mes_pago are the original rows
\* in every column, except that the closing balance of row mes_pago is
\* max(0, original closing balance - monto_extra); that row's installment,
\* interest and principal portion are the original ones.
C11_HistoriaIntacta ==
  [][pago' # pago => /\ tabla' = tabla
                     /\ simulacion'.tipo = "dict" => HistoriaConservada']_vars
C11_Witness ==
  /\ simulacion.tipo = "dict"
  /\ pago.mes_pago > 1
  /\ Len(TablaActualizada) > pago.mes_pago
  /\ SaldoTrasPago > 0
  /\ TablaActualizada[pago.mes_pago].saldo_final = SaldoTrasPago
  /\ TablaActualizada[pago.mes_pago].saldo_final < FilaPago.saldo_final

\* The extra payment covers the closing balance of the month it is made in.
PagoTotal == simulacion.tipo = "dict" /\ pago.monto_extra >= FilaPago.saldo_final
\* The interest stored in the rows of the original schedule after that month.
InteresPosterior == SumaRango(tabla, "interes", pago.mes_pago + 1, Len(tabla))

\* C12 (as amended): when monto_extra is at least the closing balance of month
\* mes_pago (1 <= mes_pago < rows), the returned schedule is the history alone:
\* exactly mes_pago rows, the last closing at 0, fewer rows than the original;
\* its total interest is the original total less the interest stored in the
\* rows after mes_pago, so never above the original total and strictly below it
\* exactly when one of those rows stores interest above 0.
C12_PagoTotal ==
  PagoTotal
    => /\ Len(TablaActualizada) = pago.mes_pago
       /\ TablaActualizada[Len(TablaActualizada)].saldo_final = 0
       /\ Len(TablaActualizada) < Len(tabla)
       /\ simulacion.resumen.interes_nuevo
            = simulacion.resumen.interes_original - InteresPosterior
       /\ simulacion.resumen.interes_nuevo <= simulacion.resumen.interes_original
\* C12 as stated: the total interest is strictly less than the original total.
C12_InteresEstrictamenteMenor ==
  PagoTotal
    => /\ Len(TablaActualizada) = pago.mes_pago
       /\ TablaActualizada[Len(TablaActualizada)].saldo_final = 0
       /\ Len(TablaActualizada) < Len(tabla)
       /\ simulacion.resumen.interes_nuevo < simulacion.resumen.interes_original
C12_Witness ==
  /\ PagoTotal
  /\ pago.mes_pago > 1
  /\ Len(TablaActualizada) = pago.mes_pago
  /\ simulacion.resumen.interes_nuevo < simulacion.resumen.interes_original

\* An extra payment above 0 and below the closing balance of its month, under the
\* policy tipo.
PagoParcial(tipo) ==
  /\ simulacion.tipo = "dict"
  /\ pago.tipo_reduccion = tipo
  /\ 0 < pago.monto_extra
  /\ pago.monto_extra < FilaPago.saldo_final
\* The months after the payment, and how many the original schedule had left.
MesesFuturos == (pago.mes_pago + 1)..Len(TablaActualizada)
PlazoRestante == Len(tabla) - pago.mes_pago
\* The installment recomputed for the balance left, rounded as a row stores it.
CuotaNueva == Round2(calcular_cuota_francesa(FCents(SaldoTrasPago), tea, PlazoRestante))

C14_PlazoHastaCero ==
  PagoParcial("Plazo")
    => /\ \A i \in MesesFuturos :
            i < Len(TablaActualizada) => TablaActualizada[i].cuota = tabla[1].cuota
       /\ TablaActualizada[Len(TablaActualizada)].saldo_final = 0

\* C16: in the summary returned, total_pagado_nuevo_real is the sum of the
\* installments of the returned schedule plus monto_extra, and meses_ahorrados is
\* the number of rows of the original schedule minus that of the returned one.
C16_Resumen ==
  simulacion.tipo = "dict"
    => /\ simulacion.resumen.total_pagado_nuevo_real
            = Suma(TablaActualizada, "cuota") + pago.monto_extra
       /\ simulacion.resumen.meses_ahorrados = Len(tabla) - Len(TablaActualizada)
C16_Witness ==
  /\ simulacion.tipo = "dict"
  /\ Len(TablaActualizada) > pago.mes_pago
  /\ simulacion.resumen.meses_ahorrados > 0
  /\ simulacion.resumen.total_pagado_nuevo_real < simulacion.resumen.total_pagado_original

(***************************************************************************)
(* Properties of the reduce-term recomputation (SpecCronograma)            *)
(***************************************************************************)
\* The fixed installment given does not cover the first month's interest, so
\* the balance never falls.
NuncaCubreInteres ==
  /\ cronograma.tipo = "llamada"
  /\ cronograma.cuota_objetivo.tipo = "float"
  /\ cronograma.cuota_objetivo.v.m > 0
  /\ FLeq(cronograma.cuota_objetivo.v, FMul(monto, tea_a_tem(tea)))

\* C15: when the fixed installment never covers the interest, the recomputation
\* fails with NonConvergentAmortization and returns no schedule.
C15_NoConvergente ==
  NuncaCubreInteres => excepcion = "NonConvergentAmortization"

(***************************************************************************)
(* Properties of the recurring prepayments (SpecRecurrentes)               *)
(***************************************************************************)
TablaRecurrente == recurrentes.tabla

\* C17: simular_pagos_recurrentes returns at most 360 rows and stops at the first
\* month after which the balance is <= 0.01 (every earlier row closes above it);
\* when it stops before the cap of 360 iterations, the last row closes at 0 and
\* no row closes below 0.
C17_RecurrentesTermina ==
  recurrentes.tipo = "llamada"
    => /\ Len(TablaRecurrente) <= max_iter
       /\ \A i \in 1..(Len(TablaRecurrente) - 1) : TablaRecurrente[i].saldo_final >= 1
       /\ Len(TablaRecurrente) < max_iter
            => /\ TablaRecurrente[Len(TablaRecurrente)].saldo_final = 0
               /\ \A i \in 1..Len(TablaRecurrente) : TablaRecurrente[i].saldo_final >= 0

(***************************************************************************)
(* Properties of the comparison of strategies (SpecEstrategias)            *)
(***************************************************************************)
ListaDevuelta == estrategias.lista
PresupuestoAnual == FCents(estrategias.presupuesto_anual_extra)

\* The entries of the list that stand for a policy of extra payments.
Politicas == {i \in 1..Len(ListaDevuelta) : ListaDevuelta[i].nombre # "Sin Prepago"}

\* Entry i reports the schedule df_: the sum of its interest and its number of rows.
EntradaDe(i, df_) ==
  /\ ListaDevuelta[i].interes_total = SumaFlotante(Zero, df_, "interes", 1, Len(df_))
  /\ ListaDevuelta[i].plazo = Len(df_)

EntradaMensual == CHOOSE i \in Politicas : ListaDevuelta[i].nombre = "Pago Mensual"
EntradaAnual == CHOOSE i \in Politicas : ListaDevuelta[i].nombre = "Pago Anual"

\* C18: the list of comparar_estrategias_prepago has one entry for each of three
\* policies of the same annual budget: budget / 12 every month, budget / 2 every
\* 6 months, and the whole budget every 12 months.
C18_TresPoliticas ==
  estrategias.tipo = "llamada"
    => /\ Cardinality(Politicas) = 3
       /\ \E i \in Politicas : ListaDevuelta[i].nombre = "Pago Mensual"
       /\ \E i \in Politicas : ListaDevuelta[i].nombre = "Pago Anual"
       /\ \E i \in Politicas \ {EntradaMensual, EntradaAnual} :
            EntradaDe(i, simular_pagos_periodicos(monto, tea, plazo,
                                                  FDiv(PresupuestoAnual, FInt(2)), 6))

\* C19: the list of comparar_estrategias_prepago is ranked by total interest
\* ascending: each entry's interes_total is at most that of the entry after it.
C19_OrdenAscendente ==
  estrategias.tipo = "llamada"
    => \A i \in 1..(Len(ListaDevuelta) - 1) :
         FLeq(ListaDevuelta[i].interes_total, ListaDevuelta[i + 1].interes_total)

\* C20: at a positive rate and for a budget above 0, the interes_total reported
\* for 'Pago Anual' is never lower than the one reported for 'Pago Mensual'.
C20_AnualNoMenorQueMensual ==
  (estrategias.tipo = "llamada" /\ tea.m > 0 /\ estrategias.presupuesto_anual_extra > 0)
    => FLeq(ListaDevuelta[EntradaMensual].interes_total,
            ListaDevuelta[EntradaAnual].interes_total)

(***************************************************************************)
(* Properties of the totals of a recomputed schedule (SpecTotales)         *)
(***************************************************************************)
\* C21: calcular_totales returns the sums of the interest, principal-portion and
\* installment columns and never fails: for a schedule of zero rows, as the
\* loops of the simulator produce from a balance <= 0.01, the totals are all 0.
C21_TotalesSinFallo ==
  cronograma.tipo = "llamada"
    => /\ excepcion = ""
       /\ totales.tipo = "dict"
       /\ totales.total_intereses = Suma(cronograma.tabla, "interes")
       /\ totales.total_amortizacion = Suma(cronograma.tabla, "amortizacion")
       /\ totales.total_pagado = Suma(cronograma.tabla, "cuota")
       /\ Len(cronograma.tabla) = 0
            => /\ totales.total_intereses = 0
               /\ totales.total_amortizacion = 0
               /\ totales.total_pagado = 0

(***************************************************************************)
(* Properties of the calls outside the domain (SpecInvalidos)              *)
(***************************************************************************)
EntradaInvalida == monto.m <= 0 \/ plazo <= 0 \/ FLeq(tea, FNeg(One))

\* C22: a principal <= 0, a term <= 0 or an annual rate <= -100 % is rejected
\* before anything is computed: the call raises, and neither a schedule nor a
\* monthly rate comes out of it.
C22_EntradaValidada ==
  EntradaInvalida
    => /\ sistema = "" /\ tabla = <<>>
       /\ conversion = Pendiente

(***************************************************************************)
(* Properties of the cash flows (SpecTcea)                                 *)
(***************************************************************************)
FlujosDeCompleta == funcion = "calcular_tcea_completa"

\* Entry i of the flows is what row i of the schedule t costs with the fees.
FlujoDeFila(t, i) ==
  flujos[i + 1] = FAdd(FAdd(FAdd(FCents(t[i].cuota), args.comision_mensual),
                            FMul(FCents(t[i].saldo_inicial), args.seguro_desgravamen)),
                       args.portes_mensuales)

EstructuraFlujos ==
  /\ Len(flujos) = plazo + 1
  /\ flujos[1] = FNeg(FSub(monto, FMul(monto, args.comision_desembolso)))
  /\ \E t \in {generar_tabla_francesa(monto, tea, plazo)} :
       \A i \in 1..plazo : FlujoDeFila(t, i)
  /\ \A i \in 2..Len(flujos) : flujos[i].m >= 0

\* C23 (amended): the flows of calcular_tcea_completa are plazo + 1 entries, entry
\* 0 being -(principal - principal x origination fee rate) and entry i, for i in
\* 1..plazo, row i's installment + monthly fee + row i's opening balance x
\* insurance rate + incidentals; with costs >= 0 no entry after entry 0 is
\* negative, and entry 0 is negative when the origination fee rate is below 1.
C23_Flujos ==
  FlujosDeCompleta
    => /\ EstructuraFlujos
       /\ FLess(args.comision_desembolso, One) => flujos[1].m < 0

\* C23 as stated: with costs >= 0, entry 0 is negative and is the only such entry.
C23_SoloElPrimeroNegativo ==
  FlujosDeCompleta
    => /\ EstructuraFlujos
       /\ flujos[1].m < 0

C23_Witness ==
  /\ FlujosDeCompleta
  /\ plazo > 1
  /\ args.comision_desembolso.m > 0 /\ args.comision_mensual.m > 0
  /\ args.seguro_desgravamen.m > 0 /\ args.portes_mensuales.m > 0
  /\ flujos[1].m < 0
  /\ flujos[2] # flujos[3]

(***************************************************************************)
(* Properties of the schedule after a prepayment (SpecSim)                 *)
(***************************************************************************)
\* C24: in every schedule simular_pago_extraordinario returns, under either
\* policy and at any month it accepts, the month column is 1, 2, ..., number of
\* rows: the recomputed rows continue from mes_pago + 1 without gap or repeat.
C24_MesesContiguos ==
  simulacion.tipo = "dict"
    => \A i \in 1..Len(TablaActualizada) : TablaActualizada[i].mes = i

C24_Witness ==
  /\ simulacion.tipo = "dict"
  /\ pago.tipo_reduccion = "Plazo"
  /\ pago.mes_pago > 1
  /\ Len(TablaActualizada) > pago.mes_pago + 1
  /\ Len(TablaActualizada) < Len(tabla)

(***************************************************************************)
(* Properties of the rounding of the rows (SpecRedondeo)                   *)
(***************************************************************************)
\* The balances the loop of a generator carries into the months desde..hasta,
\* unrounded, from the balance saldo before month desde; fijo is the fixed
\* installment (French) or the fixed principal portion (German).
RECURSIVE SaldosArrastrados(_, _, _, _, _, _)
SaldosArrastrados(saldo, tem, fijo, frances, desde, hasta) ==
  IF desde > hasta THEN [saldos |-> <<>>, saldo |-> saldo]
  ELSE IF desde = hasta
  THEN [saldos |-> <<saldo>>,
        saldo |-> IF frances THEN FSub(saldo, FSub(fijo, FMul(saldo, tem)))
                             ELSE FSub(saldo, fijo)]
  ELSE El({El({[saldos |-> a.saldos \o b.saldos, saldo |-> b.saldo] :
                 b \in {SaldosArrastrados(a.saldo, tem, fijo, frances,
                                          ((desde + hasta) \div 2) + 1, hasta)}}) :
             a \in {SaldosArrastrados(saldo, tem, fijo, frances, desde,
                                      (desde + hasta) \div 2)}})

\* The fixed payment of the generator that produced tabla.
PagoFijo ==
  IF sistema = "Frances" THEN calcular_cuota_francesa(monto, tea, plazo)
  ELSE calcular_amortizacion_alemana(monto, plazo)

\* C25 (amended): the generators round each stored figure to 2 decimals but
\* carry the balance unrounded from month to month: the interest stored in row
\* k + 1 is the unrounded balance left by month k times tem, rounded, and
\* its opening balance is that unrounded balance, rounded.
C25_SaldoSinRedondear ==
  sistema # ""
    => \E tem \in {tea_a_tem(tea)} :
         \E s \in {SaldosArrastrados(monto, tem, PagoFijo, sistema = "Frances", 1, plazo).saldos} :
           \A k \in 1..(Len(tabla) - 1) :
             /\ tabla[k + 1].interes = Round2(FMul(s[k + 1], tem))
             /\ tabla[k + 1].saldo_inicial = Round2(s[k + 1])

\* C25 as stated: the interest of month k + 1 is computed on the rounded closing
\* balance stored in row k.
C25_InteresSobreSaldoRedondeado ==
  sistema # ""
    => \E tem \in {tea_a_tem(tea)} :
         \A k \in 1..(Len(tabla) - 1) :
           tabla[k + 1].interes = Round2(FMul(FCents(tabla[k].saldo_final), tem))

C25_Witness ==
  /\ sistema = "Frances"
  /\ Len(tabla) = 3
  /\ \E tem \in {tea_a_tem(tea)} :
       \E k \in 1..(Len(tabla) - 1) :
         tabla[k + 1].interes # Round2(FMul(FCents(tabla[k].saldo_final), tem))

(***************************************************************************)
(* Properties of the rows of the recurring prepayments (SpecRecurrentes)   *)
(***************************************************************************)
\* Row i of the recurring schedule is row i of the French schedule t: opening
\* balance, interest, principal portion and closing balance.
CoincideConFrancesa(t, i) ==
  /\ i <= Len(TablaRecurrente)
  /\ TablaRecurrente[i].saldo_inicial = t[i].saldo_inicial
  /\ TablaRecurrente[i].interes = t[i].interes
  /\ TablaRecurrente[i].amortizacion = t[i].amortizacion
  /\ TablaRecurrente[i].saldo_final = t[i].saldo_final

\* C26: every month before desde_mes has in the schedule of
\* simular_pagos_recurrentes the row generar_tabla_francesa gives it for the same
\* loan; with a monthly extra of 0 the two schedules are equal row for row,
\* whatever the term.
C26_IgualQueFrancesa ==
  recurrentes.tipo = "llamada"
    => \E t \in {generar_tabla_francesa(monto, tea, plazo)} :
         /\ \A i \in 1..Len(t) : i < recurrentes.desde_mes => CoincideConFrancesa(t, i)
         /\ recurrentes.monto_extra_mensual = 0
              => /\ Len(TablaRecurrente) = Len(t)
                 /\ \A i \in 1..Len(t) : CoincideConFrancesa(t, i)

(***************************************************************************)
(* Properties of the summary of a prepayment (SpecSim)                     *)
(***************************************************************************)
\* C27: a reduce-term ('Plazo') prepayment of any amount >= 0 never yields a
\* schedule longer than the original: meses_ahorrados >= 0 and nuevo_plazo is
\* at most the original term.
C27_PlazoNoCrece ==
  (simulacion.tipo = "dict" /\ pago.tipo_reduccion = "Plazo" /\ pago.monto_extra >= 0)
    => /\ simulacion.resumen.meses_ahorrados >= 0
       /\ simulacion.resumen.nuevo_plazo <= Len(tabla)
       /\ Len(TablaActualizada) <= Len(tabla)


\* C28: for every one-time prepayment of an amount >= 0, amounts above the
\* outstanding balance included, the reported total_pagado_nuevo_real is the
\* original principal plus interes_nuevo, to within a cent for each row of the
\* two schedules: the borrower is never reported as paying more than that.
C28_TotalEsPrincipalMasInteres ==
  (simulacion.tipo = "dict" /\ pago.monto_extra >= 0)
    => \E d \in {simulacion.resumen.total_pagado_nuevo_real
                   - (Round2(monto) + simulacion.resumen.interes_nuevo)} :
         /\ d <= Len(tabla) + Len(TablaActualizada)
         /\ 0 - d <= Len(tabla) + Len(TablaActualizada)


(***************************************************************************)
(* Properties of the rows of the recurring payments (SpecRecurrentes)      *)
(***************************************************************************)
\* C29: in every row of simular_pagos_recurrentes, the final row with the payment
\* clamped to the balance included, cuota_base + pago_extra is total_pagado and
\* total_pagado is interes + amortizacion, each to within a cent of rounding.
C29_PagoDescompuesto ==
  recurrentes # Pendiente =>
    \A i \in 1..Len(TablaRecurrente) :
      \E f \in {TablaRecurrente[i]} :
        /\ f.cuota_base + f.pago_extra - f.total_pagado \in -1..1
        /\ f.interes + f.amortizacion - f.total_pagado \in -1..1


(***************************************************************************)
(* Properties of the comparison of TEA and TCEA (SpecComparar)             *)
(***************************************************************************)
\* C30: comparar_tea_vs_tcea returns None exactly when calcular_tcea_completa
\* produced no rate (None or nan); whenever a rate is computed, the rate 0 of a
\* zero-rate loan without costs included, it returns the record of tea, tcea
\* and their difference.
C30_NoneSoloSiFallo ==
  comparacion # Pendiente =>
    \E t \in {calcular_tcea_completa(monto, tea, plazo,
                                      comparacion.args.comision_desembolso,
                                      comparacion.args.comision_mensual,
                                      comparacion.args.seguro_desgravamen,
                                      comparacion.args.portes)} :
      /\ (comparacion.resultado = None) <=> (t.tipo # "float")
      /\ t.tipo = "float" =>
           /\ comparacion.resultado.tipo = "dict"
           /\ comparacion.resultado.tea = Float(FMul(tea, FInt(100)))
           /\ comparacion.resultado.tcea = t
           /\ comparacion.resultado.diferencia = Float(FSub(t.v, FMul(tea, FInt(100))))

====
